---- MODULE Spec2Model ----
(***************************************************************************)
(* Model of src/src/main.rs: the almanac of range mappings between farm    *)
(* resources, the backward conversion of one resource through the almanac  *)
(* (convert_resource), the predecessor constructor (to_previous_resource), *)
(* the lookup by destination variant (find_mappings_for_dest_resource) and *)
(* the line-by-line construction of the almanac (create_conversion_table). *)
(*                                                                         *)
(* i64 magnitudes are modelled as mathematical integers drawn from small   *)
(* ranges far from the i64 limits: no sum in the model can overflow.       *)
(***************************************************************************)
EXTENDS Integers, Sequences, FiniteSets, TLC

\* ------------------------------------------------------------------ bounds
MaxMag == 3            \* magnitudes of queried resources: 0..MaxMag
MaxStart == 1          \* dest_start and src_start of generated rules: 0 or MaxStart
MaxRange == 2          \* range of generated rules: 0 or MaxRange
MaxRules == 2          \* length of generated rule lists
MaxEntries == 2        \* entries of generated multi-entry almanacs
MaxSectionRules == 1   \* mapping lines read per section of the input file

\* ------------------------------------------------------- Resource (l.18-27)
Variants ==
  <<"Seed", "Soil", "Fertilizer", "Water", "Light", "Temperature", "Humidity", "Location">>

VariantSet == {Variants[i] : i \in 1..Len(Variants)}

Resource(tag, num) == [tag |-> tag, num |-> num]

\* The outcome of a call that unwinds with panic!() instead of returning.
Panic == [tag |-> "panic", num |-> 0]

\* Option<T>: None is the empty sequence, Some(x) the one-element sequence.
None == <<>>

Some(x) == <<x>>

unwrap_or(opt, default) == IF opt = None THEN default ELSE opt[1]

\* std::mem::discriminant: the variant, without the payload.
discriminant(resource) == resource.tag

get_resource_num(resource) == resource.num

\* ---------------------------------------------------- FarmMapping (l.4-8)
FarmMapping(d, s, n) == [dest_start |-> d, src_start |-> s, range |-> n]

\* ------------------------------------------- to_previous_resource (l.50-61)
\* Mutant: the Seed arm returns a Seed instead of panicking.
to_previous_resource_lenient(resource, new_num) ==
  CASE resource.tag = "Seed"        -> Resource("Seed", unwrap_or(new_num, resource.num))
    [] resource.tag = "Soil"        -> Resource("Seed", unwrap_or(new_num, resource.num))
    [] resource.tag = "Fertilizer"  -> Resource("Soil", unwrap_or(new_num, resource.num))
    [] resource.tag = "Water"       -> Resource("Fertilizer", unwrap_or(new_num, resource.num))
    [] resource.tag = "Light"       -> Resource("Water", unwrap_or(new_num, resource.num))
    [] resource.tag = "Temperature" -> Resource("Light", unwrap_or(new_num, resource.num))
    [] resource.tag = "Humidity"    -> Resource("Temperature", unwrap_or(new_num, resource.num))
    [] resource.tag = "Location"    -> Resource("Humidity", unwrap_or(new_num, resource.num))

\* Mutant: the Temperature arm steps back to Water, skipping Light.
to_previous_resource_skip(resource, new_num) ==
  CASE resource.tag = "Seed"        -> Panic
    [] resource.tag = "Soil"        -> Resource("Seed", unwrap_or(new_num, resource.num))
    [] resource.tag = "Fertilizer"  -> Resource("Soil", unwrap_or(new_num, resource.num))
    [] resource.tag = "Water"       -> Resource("Fertilizer", unwrap_or(new_num, resource.num))
    [] resource.tag = "Light"       -> Resource("Water", unwrap_or(new_num, resource.num))
    [] resource.tag = "Temperature" -> Resource("Water", unwrap_or(new_num, resource.num))
    [] resource.tag = "Humidity"    -> Resource("Temperature", unwrap_or(new_num, resource.num))
    [] resource.tag = "Location"    -> Resource("Humidity", unwrap_or(new_num, resource.num))

to_previous_resource(resource, new_num) ==
  CASE resource.tag = "Seed"        -> Panic
    [] resource.tag = "Soil"        -> Resource("Seed", unwrap_or(new_num, resource.num))
    [] resource.tag = "Fertilizer"  -> Resource("Soil", unwrap_or(new_num, resource.num))
    [] resource.tag = "Water"       -> Resource("Fertilizer", unwrap_or(new_num, resource.num))
    [] resource.tag = "Light"       -> Resource("Water", unwrap_or(new_num, resource.num))
    [] resource.tag = "Temperature" -> Resource("Light", unwrap_or(new_num, resource.num))
    [] resource.tag = "Humidity"    -> Resource("Temperature", unwrap_or(new_num, resource.num))
    [] resource.tag = "Location"    -> Resource("Humidity", unwrap_or(new_num, resource.num))

\* ------------------------------------------------------- Almanac (l.10)
\* HashMap<(Resource, Resource), Vec<FarmMapping>>: a function from keys to
\* rule lists.  A key is a pair of Resources, payloads included.
Key(src, dest) == <<Resource(src, 0), Resource(dest, 0)>>

\* The section headers of the input file, in the order of the match arms.
Headers ==
  <<"seed-to-soil map:", "soil-to-fertilizer map:", "fertilizer-to-water map:",
    "water-to-light map:", "light-to-temperature map:",
    "temperature-to-humidity map:", "humidity-to-location map:">>

HeaderSet == {Headers[i] : i \in 1..Len(Headers)}

\* Mutant: the light-to-temperature arm repeats the whole water-to-light key.
header_key_copied(line) ==
  CASE line = "seed-to-soil map:"            -> Key("Seed", "Soil")
    [] line = "soil-to-fertilizer map:"      -> Key("Soil", "Fertilizer")
    [] line = "fertilizer-to-water map:"     -> Key("Fertilizer", "Water")
    [] line = "water-to-light map:"          -> Key("Water", "Light")
    [] line = "light-to-temperature map:"    -> Key("Water", "Light")
    [] line = "temperature-to-humidity map:" -> Key("Temperature", "Humidity")
    [] line = "humidity-to-location map:"    -> Key("Humidity", "Location")

\* The key each header line selects (l.75-81); the light-to-temperature arm
\* names Water as its source, as the source does.
header_key(line) ==
  CASE line = "seed-to-soil map:"            -> Key("Seed", "Soil")
    [] line = "soil-to-fertilizer map:"      -> Key("Soil", "Fertilizer")
    [] line = "fertilizer-to-water map:"     -> Key("Fertilizer", "Water")
    [] line = "water-to-light map:"          -> Key("Water", "Light")
    [] line = "light-to-temperature map:"    -> Key("Water", "Temperature")
    [] line = "temperature-to-humidity map:" -> Key("Temperature", "Humidity")
    [] line = "humidity-to-location map:"    -> Key("Humidity", "Location")

\* Keys of the generated almanacs: the producer's seven, a second key with
\* Temperature as destination, and a key with Seed as destination.
KeySeq ==
  <<Key("Seed", "Soil"), Key("Soil", "Fertilizer"), Key("Fertilizer", "Water"),
    Key("Water", "Light"), Key("Water", "Temperature"), Key("Temperature", "Humidity"),
    Key("Humidity", "Location"), Key("Light", "Temperature"), Key("Soil", "Seed")>>

KeySet == {KeySeq[i] : i \in 1..Len(KeySeq)}

\* The seeds a HashMap's RandomState can take: iteration order is a function
\* of the instance's hasher.  Two are modelled; between them every pair of
\* keys is iterated in both orders.
HashSeeds == {"k0", "k1"}

Reverse(s) == [i \in 1..Len(s) |-> s[Len(s) + 1 - i]]

\* conversion_table.iter() (l.31): the keys in this instance's iteration order.
iter(conversion_table, hash_builder) ==
  LET order == IF hash_builder = "k0" THEN KeySeq ELSE Reverse(KeySeq)
  IN  SelectSeq(order, LAMBDA k : k \in DOMAIN conversion_table)

\* -------------------------------- find_mappings_for_dest_resource (l.30-35)
\* Mutant: the filter compares the source half of the key.
find_mappings_by_source(resource, conversion_table, hash_builder) ==
  LET matching == SelectSeq(iter(conversion_table, hash_builder),
                            LAMBDA k : discriminant(resource) = discriminant(k[1]))
  IN  IF matching = <<>> THEN None ELSE Some(conversion_table[matching[1]])

\* Mutant: the filter is dropped and the first entry iterated is returned.
find_mappings_unfiltered(resource, conversion_table, hash_builder) ==
  LET entries == iter(conversion_table, hash_builder)
  IN  IF entries = <<>> THEN None ELSE Some(conversion_table[entries[1]])

find_mappings_for_dest_resource(resource, conversion_table, hash_builder) ==
  LET matching == SelectSeq(iter(conversion_table, hash_builder),
                            LAMBDA k : discriminant(resource) = discriminant(k[2]))
  IN  IF matching = <<>> THEN None ELSE Some(conversion_table[matching[1]])

\* ------------------------------------------------ convert_resource (l.128-147)
\* Mutant: the upper end of the window is inclusive.
mapping_applies_inclusive(mapping, resource_num) ==
  mapping.dest_start <= resource_num /\ resource_num <= mapping.dest_start + mapping.range

\* The test of l.134.
mapping_applies(mapping, resource_num) ==
  mapping.dest_start <= resource_num /\ resource_num < mapping.dest_start + mapping.range

\* Mutant: the forward conversion, source-to-destination.
mapped_num_forward(mapping, resource_num) ==
  mapping.dest_start + (resource_num - mapping.src_start)

\* Mutant: the window's start is not subtracted.
mapped_num_unrebased(mapping, resource_num) == mapping.src_start + resource_num

\* The magnitude computed at l.135.
mapped_num(mapping, resource_num) ==
  mapping.src_start + (resource_num - mapping.dest_start)

\* Mutant: the scan keeps going and the last applicable mapping wins.
scan_mappings_last(mappings, i, resource) ==
  LET applicable == {j \in i..Len(mappings) :
                       mapping_applies(mappings[j], get_resource_num(resource))}
  IN  IF applicable = {}
        THEN to_previous_resource(resource, None)
        ELSE LET last == CHOOSE j \in applicable : \A k \in applicable : k <= j
             IN  to_previous_resource(resource,
                   Some(mapped_num(mappings[last], get_resource_num(resource))))

\* The loop of l.133-140 from index i on: the first applicable mapping
\* returns, and the default follows the loop.
RECURSIVE scan_mappings(_, _, _)
scan_mappings(mappings, i, resource) ==
  IF i > Len(mappings)
    THEN to_previous_resource(resource, None)
    ELSE IF mapping_applies(mappings[i], get_resource_num(resource))
           THEN to_previous_resource(resource,
                  Some(mapped_num(mappings[i], get_resource_num(resource))))
           ELSE scan_mappings(mappings, i + 1, resource)

\* Mutant: without a table the resource is stepped back unchanged.
convert_resource_passthrough(resource, conversion_table, hash_builder) ==
  LET found == find_mappings_for_dest_resource(resource, conversion_table, hash_builder)
  IN  IF found # None
        THEN scan_mappings(found[1], 1, resource)
        ELSE to_previous_resource(resource, None)

convert_resource(resource, conversion_table, hash_builder) ==
  LET found == find_mappings_for_dest_resource(resource, conversion_table, hash_builder)
  IN  IF found # None
        THEN scan_mappings(found[1], 1, resource)
        ELSE Resource("Seed", 0)

\* Whether the call prints the "Unable to find mappings" line (l.143).
prints_diagnostic(resource, conversion_table, hash_builder) ==
  find_mappings_for_dest_resource(resource, conversion_table, hash_builder) = None

\* --------------------------------------------- create_conversion_table (l.63-125)
\* A line of ./day5.txt: its text (what the match of l.73 and is_empty see)
\* and the pieces line.split(" ") yields.
Line(str, split) == [str |-> str, split |-> split]

\* s.parse::<i64>() on the tokens the model's files contain.
parse_i64(s) ==
  CASE s = "0" -> Some(0)
    [] s = "1" -> Some(1)
    [] s = "2" -> Some(2)
    [] OTHER   -> None

\* .map(|s| s.parse::<i64>()).flatten().collect(): the Err tokens are tossed.
RECURSIVE parse_tokens(_)
parse_tokens(split) ==
  IF split = <<>>
    THEN <<>>
    ELSE (IF parse_i64(Head(split)) = None THEN <<>> ELSE <<parse_i64(Head(split))[1]>>)
         \o parse_tokens(Tail(split))

\* The seeds of l.89-93: the list header is filtered out before parsing.
parse_seeds(split) == parse_tokens(SelectSeq(split, LAMBDA s : s # "seeds:"))

\* almanac.insert(key, Vec::new()) when the key is absent (l.104-106).
ensure_key(table, key) ==
  IF key \in DOMAIN table THEN table ELSE table @@ (key :> <<>>)

\* The push of l.108-112: the first three tokens, in the order dest_start,
\* src_start, range.
push_mapping(table, key, tokens) ==
  [ensure_key(table, key) EXCEPT
     ![key] = Append(@, FarmMapping(tokens[1], tokens[2], tokens[3]))]

EmptyAlmanac == [k \in {} |-> <<>>]

\* ------------------------------------------------------------------ state
VARIABLES
  almanac,           \* the Almanac: key -> Vec<FarmMapping>
  hash_builder,      \* the RandomState of the HashMap instance holding it
  resource,          \* the Resource passed to the next call
  new_num,           \* the Option<i64> passed to to_previous_resource
  result,            \* what the last call returned (Panic when it unwound)
  hash_again,        \* the RandomState of an equal map built separately
  result_again,      \* what convert_resource returned on that map
  stdout,            \* number of "Unable to find mappings" lines printed
  current_resource,  \* create_conversion_table: Option<(Resource, Resource)>
  seeds,             \* create_conversion_table: Vec<i64>
  section,           \* the header line read last (history)
  populated,         \* headers so far followed by a mapping line (history)
  hops,              \* conversions made by the chain walk
  pc                 \* position of the program

vars ==
  <<almanac, hash_builder, resource, new_num, result, hash_again, result_again,
    stdout, current_resource, seeds, section, populated, hops, pc>>

Magnitudes == 0..MaxMag

Resources == {Resource(v, m) : v \in VariantSet, m \in Magnitudes}

Unset == Resource("Seed", 0)

SeqsUpTo(S, n) == UNION {[1..k -> S] : k \in 0..n}

\* --------------------------------------------------- inputs of the calls
Rules ==
  {FarmMapping(d, s, n) : d \in {0, MaxStart}, s \in {0, MaxStart}, n \in {0, MaxRange}}

RuleLists == SeqsUpTo(Rules, MaxRules)

\* One table, any rule list, queried with a resource of its destination.
SingleTableInputs ==
  {[almanac |-> (k :> rules), resource |-> Resource(k[2].tag, m), hash_builder |-> "k0"] :
     k \in KeySet, rules \in RuleLists, m \in Magnitudes}

PlainLists == {<<>>, <<FarmMapping(0, 1, 2)>>}

\* Up to MaxEntries tables, queried with any resource.
Almanacs ==
  UNION {[keys -> PlainLists] : keys \in {K \in SUBSET KeySet : Cardinality(K) <= MaxEntries}}

ManyTableInputs ==
  {[almanac |-> a, resource |-> r, hash_builder |-> h] :
     a \in Almanacs, r \in Resources, h \in HashSeeds}

\* The scenario of the specification's section 8: the Soil table holding
\* (50, 98, 2) then (52, 50, 48), queried with Soil(79).
ScenarioAlmanac ==
  Key("Seed", "Soil") :> <<FarmMapping(50, 98, 2), FarmMapping(52, 50, 48)>>

ScenarioInputs ==
  {[almanac |-> ScenarioAlmanac, resource |-> Resource("Soil", 79), hash_builder |-> h] :
     h \in HashSeeds}

\* The table a complete file yields: every header, one mapping line each.
FullAlmanac == [k \in {header_key(h) : h \in HeaderSet} |-> <<FarmMapping(0, 1, 2)>>]

FullTableInputs ==
  {[almanac |-> FullAlmanac, resource |-> r, hash_builder |-> h] :
     r \in Resources, h \in HashSeeds}

ConvertInputs ==
  SingleTableInputs \cup ManyTableInputs \cup ScenarioInputs \cup FullTableInputs

\* ------------------------------------------- Spec: the calls, one at a time
Idle ==
  /\ new_num = None
  /\ result = Unset
  /\ hash_again = "k0"
  /\ result_again = Unset
  /\ stdout = 0
  /\ current_resource = None
  /\ seeds = <<>>
  /\ section = ""
  /\ populated = {}
  /\ hops = 0

Init ==
  /\ Idle
  /\ \/ \E in \in ConvertInputs :
          /\ almanac = in.almanac
          /\ resource = in.resource
          /\ hash_builder = in.hash_builder
          /\ pc = "convert"
     \/ /\ almanac = EmptyAlmanac
        /\ resource \in Resources
        /\ hash_builder = "k0"
        /\ pc = "stepback"

\* convert_resource(resource, &almanac)
CallConvert ==
  /\ pc = "convert"
  /\ result' = convert_resource(resource, almanac, hash_builder)
  /\ stdout' = stdout + (IF prints_diagnostic(resource, almanac, hash_builder) THEN 1 ELSE 0)
  /\ pc' = "converted"
  /\ UNCHANGED <<almanac, hash_builder, resource, new_num, hash_again, result_again,
                 current_resource, seeds, section, populated, hops>>

\* The same call on an equal Almanac held by another HashMap instance (the
\* same file read by another run): HashMap::new() draws a fresh RandomState.
CallConvertAgain(h) ==
  /\ pc = "converted"
  /\ hash_again' = h
  /\ result_again' = convert_resource(resource, almanac, h)
  /\ stdout' = stdout + (IF prints_diagnostic(resource, almanac, h) THEN 1 ELSE 0)
  /\ pc' = "reconverted"
  /\ UNCHANGED <<almanac, hash_builder, resource, new_num, result,
                 current_resource, seeds, section, populated, hops>>

\* to_previous_resource(resource, n)
CallStepBack(n) ==
  /\ pc = "stepback"
  /\ new_num' = n
  /\ result' = to_previous_resource(resource, n)
  /\ pc' = "stepped"
  /\ UNCHANGED <<almanac, hash_builder, resource, hash_again, result_again, stdout,
                 current_resource, seeds, section, populated, hops>>

Next ==
  \/ CallConvert
  \/ \E h \in HashSeeds : CallConvertAgain(h)
  \/ \E n \in {None} \cup {Some(m) : m \in Magnitudes} : CallStepBack(n)

Spec == Init /\ [][Next]_vars

\* ------------------- SpecChain: the producer, then a walk down to a Seed
HeaderWords ==
  <<"seed-to-soil", "soil-to-fertilizer", "fertilizer-to-water", "water-to-light",
    "light-to-temperature", "temperature-to-humidity", "humidity-to-location">>

HeaderLines == {Line(Headers[i], <<HeaderWords[i], "map:">>) : i \in 1..Len(Headers)}

\* The lines a file is made of: the headers, the empty line, the seed list
\* and a mapping line.
FileLines ==
  HeaderLines \cup
  {Line("", <<"">>), Line("seeds: 0 1", <<"seeds:", "0", "1">>), Line("0 1 2", <<"0", "1", "2">>)}

InitChain ==
  /\ Idle
  /\ resource = Unset
  /\ hash_builder \in HashSeeds
  /\ \/ /\ almanac = EmptyAlmanac
        /\ pc = "start"
     \/ /\ almanac \in Almanacs
        /\ pc = "parsed"

\* File::open("./day5.txt") (l.64) and HashMap::new() (l.66); Err when the
\* file cannot be opened (l.124).
OpenFile(ok) ==
  /\ pc = "start"
  /\ pc' = IF ok THEN "parsing" ELSE "nofile"
  /\ UNCHANGED <<almanac, hash_builder, resource, new_num, result, hash_again,
                 result_again, stdout, current_resource, seeds, section, populated, hops>>

\* Whether the model reads this line here: a section takes its first
\* mapping line, and further ones while its table holds fewer than
\* MaxSectionRules.
Readable(line) ==
  IF line.str \in HeaderSet \/ line.str = "" \/ current_resource = None
    THEN TRUE
    ELSE IF section \in populated
           THEN Len(almanac[current_resource[1]]) < MaxSectionRules
           ELSE TRUE

\* One iteration of the loop of l.72-118.
ReadLine(line) ==
  /\ pc = "parsing"
  /\ Readable(line)
  /\ IF line.str \in HeaderSet
       THEN /\ current_resource' = Some(header_key(line.str))
            /\ section' = line.str
            /\ UNCHANGED <<almanac, seeds, populated, pc>>
       ELSE IF current_resource = None
         THEN /\ seeds' = IF line.str # "" THEN parse_seeds(line.split) ELSE seeds
              /\ UNCHANGED <<almanac, current_resource, section, populated, pc>>
         ELSE IF line.str = ""
           THEN UNCHANGED <<almanac, current_resource, seeds, section, populated, pc>>
           ELSE IF Len(parse_tokens(line.split)) >= 3
             THEN /\ almanac' = push_mapping(almanac, current_resource[1],
                                             parse_tokens(line.split))
                  /\ populated' = populated \cup {section}
                  /\ UNCHANGED <<current_resource, seeds, section, pc>>
             ELSE \* tokens.remove(0) on an exhausted Vec panics, the key inserted
                  /\ almanac' = ensure_key(almanac, current_resource[1])
                  /\ pc' = "panicked"
                  /\ UNCHANGED <<current_resource, seeds, section, populated>>
  /\ UNCHANGED <<hash_builder, resource, new_num, result, hash_again, result_again,
                 stdout, hops>>

\* End of file: Ok((seeds, almanac)) (l.120); the locals are dropped.
ReturnTable ==
  /\ pc = "parsing"
  /\ pc' = "parsed"
  /\ current_resource' = None
  /\ section' = ""
  /\ UNCHANGED <<almanac, hash_builder, resource, new_num, result, hash_again,
                 result_again, stdout, seeds, populated, hops>>

\* The chain walk of the specification's section 4.4 starts from a Location.
StartWalk(m) ==
  /\ pc = "parsed"
  /\ resource' = Resource("Location", m)
  /\ hops' = 0
  /\ pc' = "walking"
  /\ UNCHANGED <<almanac, hash_builder, new_num, result, hash_again, result_again,
                 stdout, current_resource, seeds, section, populated>>

\* One hop of the walk: convert_resource on the current resource; the walk
\* stops on reaching a Seed.
Hop ==
  /\ pc = "walking"
  /\ result' = convert_resource(resource, almanac, hash_builder)
  /\ stdout' = stdout + (IF prints_diagnostic(resource, almanac, hash_builder) THEN 1 ELSE 0)
  /\ resource' = result'
  /\ hops' = hops + 1
  /\ pc' = IF discriminant(result') = "Seed" THEN "walked" ELSE "walking"
  /\ UNCHANGED <<almanac, hash_builder, new_num, hash_again, result_again,
                 current_resource, seeds, section, populated>>

NextChain ==
  \/ \E ok \in BOOLEAN : OpenFile(ok)
  \/ \E line \in FileLines : ReadLine(line)
  \/ ReturnTable
  \/ \E m \in Magnitudes : StartWalk(m)
  \/ Hop

SpecChain == InitChain /\ [][NextChain]_vars

\* ------------------------------------------------------ the properties
VariantIndex(tag) == CHOOSE i \in 1..Len(Variants) : Variants[i] = tag

\* The category immediately before tag in the fixed sequence.
Predecessor(tag) == Variants[VariantIndex(tag) - 1]

\* The entries whose destination half has the category of the queried value.
Matching == {k \in DOMAIN almanac : k[2].tag = resource.tag}

\* m lies in the rule's window [dest_start, dest_start + range).
InWindow(rule, m) == rule.dest_start <= m /\ m < rule.dest_start + rule.range

\* The rules of a list whose window holds m.
Holding(rules, m) == {i \in 1..Len(rules) : InWindow(rules[i], m)}

Converted == pc \in {"converted", "reconverted"}

\* C1: when exactly one table has the value's category as destination, the
\* value is not a Seed, and a rule (d, s, n) of that table holds the
\* magnitude m while no earlier rule does, convert_resource returns the
\* magnitude s + (m - d).
C1_RangeContainment ==
  (Converted /\ resource.tag # "Seed") =>
    \A k \in Matching :
      Cardinality(Matching) = 1 =>
        \A i \in 1..Len(almanac[k]) :
          (InWindow(almanac[k][i], resource.num)
             /\ \A j \in 1..(i - 1) : ~InWindow(almanac[k][j], resource.num)) =>
            /\ result # Panic
            /\ result.num = almanac[k][i].src_start
                              + (resource.num - almanac[k][i].dest_start)

\* A second rule applied, after a first one that does not hold m, with an
\* offset that is not zero and a magnitude inside the window.
C1_Witness ==
  /\ pc = "converted"
  /\ resource.tag = "Water"
  /\ \E k \in Matching :
       /\ Matching = {k}
       /\ Len(almanac[k]) = 2
       /\ ~InWindow(almanac[k][1], resource.num)
       /\ InWindow(almanac[k][2], resource.num)
       /\ almanac[k][2].src_start # almanac[k][2].dest_start
       /\ resource.num > almanac[k][2].dest_start
       /\ result.num = almanac[k][2].src_start + (resource.num - almanac[k][2].dest_start)
       /\ result.num # resource.num

\* C2: when the table of a value that is not a Seed is found and no rule of
\* it holds the magnitude m (an empty list included), convert_resource
\* returns the magnitude m tagged with the immediately preceding category.
C2_IdentityFallback ==
  (Converted /\ resource.tag # "Seed") =>
    \A k \in Matching :
      (Cardinality(Matching) = 1 /\ Holding(almanac[k], resource.num) = {}) =>
        result = Resource(Predecessor(resource.tag), resource.num)

\* A magnitude just past the end of a window: no rule holds it.
C2_Witness ==
  /\ pc = "converted"
  /\ resource.tag = "Temperature"
  /\ \E k \in Matching :
       /\ Matching = {k}
       /\ Len(almanac[k]) >= 1
       /\ Holding(almanac[k], resource.num) = {}
       /\ \E i \in 1..Len(almanac[k]) :
            /\ almanac[k][i].range > 0
            /\ resource.num = almanac[k][i].dest_start + almanac[k][i].range
            /\ almanac[k][i].src_start # almanac[k][i].dest_start
  /\ result = Resource("Light", resource.num)

\* C3: when two or more rules of the table hold the magnitude, the result is
\* computed from the earliest of them in the list.
C3_FirstMatchWins ==
  (Converted /\ resource.tag # "Seed") =>
    \A k \in Matching :
      (Cardinality(Matching) = 1 /\ Cardinality(Holding(almanac[k], resource.num)) >= 2) =>
        \E i \in Holding(almanac[k], resource.num) :
          /\ \A j \in Holding(almanac[k], resource.num) : i <= j
          /\ result = Resource(Predecessor(resource.tag),
                               almanac[k][i].src_start
                                 + (resource.num - almanac[k][i].dest_start))

\* Two rules hold the magnitude with different offsets; the first decides,
\* and the same table with the two rules swapped gives another result.
C3_Witness ==
  /\ pc = "converted"
  /\ resource.tag = "Soil"
  /\ \E k \in Matching :
       /\ Matching = {k}
       /\ Len(almanac[k]) = 2
       /\ Holding(almanac[k], resource.num) = {1, 2}
       /\ result.num = almanac[k][1].src_start + (resource.num - almanac[k][1].dest_start)
       /\ result.num # almanac[k][2].src_start + (resource.num - almanac[k][2].dest_start)
       /\ convert_resource(resource, [almanac EXCEPT ![k] = Reverse(@)], hash_builder)
            # result

\* C4: to_previous_resource on a Seed panics, whatever the magnitude and
\* whether new_num is present or absent; on any other category it returns a
\* resource.
C4_FatalBoundary ==
  pc = "stepped" =>
    /\ resource.tag = "Seed" => result = Panic
    /\ resource.tag # "Seed" => result # Panic /\ result.tag \in VariantSet

\* A Seed of non-zero magnitude stepped back with a present new_num.
C4_Witness ==
  /\ pc = "stepped"
  /\ resource.tag = "Seed"
  /\ resource.num # 0
  /\ new_num # None
  /\ result = Panic

\* C5: when no entry has the category of the queried value as destination,
\* convert_resource does not panic and returns Seed(0), whatever the value's
\* category and magnitude, printing the diagnostic; the result is not the
\* value stepped back.
C5_MissingTableFallback ==
  (pc = "converted" /\ Matching = {}) =>
    /\ result = Resource("Seed", 0)
    /\ stdout = 1

\* A Light of non-zero magnitude against a table without a Light destination.
C5_Witness ==
  /\ pc = "converted"
  /\ Matching = {}
  /\ DOMAIN almanac # {}
  /\ resource.tag = "Light"
  /\ resource.num # 0
  /\ result = Resource("Seed", 0)

InScenario ==
  /\ pc = "converted"
  /\ almanac = ScenarioAlmanac
  /\ resource = Resource("Soil", 79)

\* C7 as stated: in the scenario convert_resource returns Seed(81).
C7_ScenarioAsStated == InScenario => result = Resource("Seed", 81)

\* C7 as amended: in the scenario, with the Soil table (50, 98, 2) then
\* (52, 50, 48), convert_resource on Soil(79) returns Seed(77): 79 lies in
\* the destination window [52, 100) of the second rule, and 50 + (79 - 52) = 77.
C7_ScenarioBackward == InScenario => result = Resource("Seed", 77)

C7_Witness == InScenario /\ result = Resource("Seed", 77)

\* C8 as stated: convert_resource on a Seed panics for every table.
C8_SeedAlwaysFatal ==
  (pc = "converted" /\ resource.tag = "Seed") => result = Panic

\* C8 as amended: convert_resource on a Seed panics exactly when the table
\* has an entry with Seed as destination; without one (the table of a
\* complete file included) it returns Seed(0) and prints the diagnostic.
C8_SeedFatalOnlyWithTable ==
  (pc = "converted" /\ resource.tag = "Seed") =>
    /\ result = Panic <=> Matching # {}
    /\ Matching = {} => result = Resource("Seed", 0) /\ stdout = 1

\* A Seed converted against the table of a complete file.
C8_Witness ==
  /\ pc = "converted"
  /\ resource.tag = "Seed"
  /\ resource.num # 0
  /\ almanac = FullAlmanac
  /\ result = Resource("Seed", 0)

\* C9 as stated: two invocations with the same value and the same table
\* return the same value, also with several entries for one destination.
C9_Deterministic == pc = "reconverted" => result_again = result

\* C9 as amended: two invocations with the same value and equal tables
\* return the same value when at most one entry has the queried category as
\* destination, whatever RandomState each map has, or when both iterate with
\* the same RandomState.
C9_DeterministicUniqueDest ==
  (pc = "reconverted" /\ (Cardinality(Matching) <= 1 \/ hash_again = hash_builder)) =>
    result_again = result

\* Two maps of two entries iterated in opposite orders, one entry matching,
\* its rule applied.
C9_Witness ==
  /\ pc = "reconverted"
  /\ Cardinality(DOMAIN almanac) >= 2
  /\ Cardinality(Matching) = 1
  /\ hash_again # hash_builder
  /\ result_again = result
  /\ result.num # resource.num

\* The destination categories, as positions of the sequence, without a table.
Missing == {i \in 2..Len(Variants) : \A k \in DOMAIN almanac : k[2].tag # Variants[i]}

Highest(S) == CHOOSE i \in S : \A j \in S : j <= i

\* C6 as stated: the walk from a Location ends after exactly 7 hops.
C6_AlwaysSevenHops == pc = "walked" => hops = Len(Variants) - 1

\* C6 as amended: the walk from a Location down to a Seed always ends, after
\* at most 7 hops: exactly 7 when each of Fertilizer..Location has a table
\* as destination, and otherwise one more than the number of categories
\* above the highest one without a table, since the hop there returns
\* Seed(0).  While walking, each hop has moved one category down and a
\* further hop is possible.
C6_ChainWalkLength ==
  /\ pc = "walked" =>
       /\ resource.tag = "Seed"
       /\ hops = IF Missing = {} THEN Len(Variants) - 1
                 ELSE Len(Variants) + 1 - Highest(Missing)
       /\ hops <= Len(Variants) - 1
  /\ pc = "walking" =>
       /\ resource.tag \in VariantSet \ {"Seed"}
       /\ hops = Len(Variants) - VariantIndex(resource.tag)
       /\ ENABLED Hop

\* A walk of seven hops over a table with every destination, ending away
\* from the sentinel.
C6_Witness ==
  /\ pc = "walked"
  /\ Missing = {}
  /\ hops = 7
  /\ resource # Resource("Seed", 0)

\* C10: with the table built from a file in which each of the seven headers
\* is followed by a mapping line, no hop of the walk from a Location takes
\* the Seed(0) branch (no diagnostic is printed) and every hop's result has
\* the immediately preceding category.
C10_NoFallbackOnCompleteFile ==
  (populated = HeaderSet /\ pc \in {"walking", "walked"}) =>
    /\ stdout = 0
    /\ resource.tag \in VariantSet
    /\ VariantIndex(resource.tag) = Len(Variants) - hops
    /\ (hops > 0 => result = resource)

\* The walk has passed Temperature, whose table the file's header files
\* under a Water source.
C10_Witness ==
  /\ populated = HeaderSet
  /\ pc = "walking"
  /\ resource.tag = "Light"
  /\ hops = 3
  /\ stdout = 0

====
